---- MODULE Spec2Model ----
(***************************************************************************)
(* The live call session engine of server.js: the call-session registry,   *)
(* the trial ledger, the request/response binding (/api/voice/incoming and *)
(* /api/voice/process) and the persistent stream binding (the WebSocket    *)
(* handler for ConversationRelay).                                         *)
(*                                                                         *)
(* Time is counted in units of ten seconds (Date.now() / 10000), so the    *)
(* 3-minute trial budget is 18 units and the 10-second API timeout is 1.   *)
(* Texts are sequences of symbols: one symbol is a character, or a run of   *)
(* characters no regular expression of the program tells apart.            *)
(* A handler that awaits the remote completion is two steps: the part      *)
(* before the await and the part after it; every other handler is one      *)
(* step, as it runs to completion on the event loop.                       *)
(***************************************************************************)
EXTENDS Integers, Sequences, FiniteSets, TLC

\* ------------------------------------------------------------- bounds
NumCalls == 2        \* call ids the transport may present
MaxTicks == 2        \* times the clock is seen to advance
MaxTurns == 2        \* remote completions started, over all calls
MaxConns == 1        \* stream connections accepted, over all calls
MaxSessions == 2     \* call-session objects ever created
MaxHandles == 1      \* business session handles ever created
MaxTalkTurns == 3    \* remote completions started in the conversation of SpecTalk
MaxLen == 5          \* symbols of a text given to the sanitizer in SpecText
MaxSweepTicks == 3   \* times the clock is seen to advance in SpecSweep
MaxSweepHandles == 2 \* business session handles ever created in SpecSweep

\* ------------------------------------------------- program constants
TRIAL_LIMIT == 18    \* elapsed >= 3 minutes, in units of 10 s
API_TIMEOUT == 1     \* setTimeout(..., 10000), in units of 10 s
THIRTY_MINUTES == 180 \* 30 * 60 * 1000 ms, in units of 10 s
ONE_HOUR == 360      \* 60 * 60 * 1000 ms, in units of 10 s

CallSids == 1..NumCalls

\* req.body.From of a call: the transport gives one call id to one call, so
\* the caller identity is a function of the call id (two ids per caller).
From(callSid) == (callSid + 1) \div 2

\* req.body.To: the dialled number.
TwilioNumbers == {"+3120"}

NoLang == "null"

\* ------------------------------------------------- language tables
LANGUAGE_CONFIG ==
  {"nl-NL", "en-US", "en-GB", "de-DE", "fr-FR", "es-ES", "ar-SA", "tr-TR",
   "pl-PL", "pt-BR", "it-IT"}

ShortCodes == {"nl", "en", "de", "fr", "es", "ar", "tr", "pl", "pt", "it"}

\* LANGUAGE_CODE_MAP[code], "undefined" for a code that is no key.
LANGUAGE_CODE_MAP(code) ==
  CASE code = "nl" -> "nl-NL"
    [] code = "en" -> "en-US"
    [] code = "de" -> "de-DE"
    [] code = "fr" -> "fr-FR"
    [] code = "es" -> "es-ES"
    [] code = "ar" -> "ar-SA"
    [] code = "tr" -> "tr-TR"
    [] code = "pl" -> "pl-PL"
    [] code = "pt" -> "pt-BR"
    [] code = "it" -> "it-IT"
    [] OTHER -> "undefined"

\* langMap[name] || "nl-NL" of the incoming-call handler.
langMap(name) ==
  CASE name = "Dutch" -> "nl-NL"
    [] name = "English" -> "en-US"
    [] name = "German" -> "de-DE"
    [] name = "French" -> "fr-FR"
    [] name = "Spanish" -> "es-ES"
    [] name = "Arabic" -> "ar-SA"
    [] name = "Turkish" -> "tr-TR"
    [] name = "Polish" -> "pl-PL"
    [] name = "Portuguese" -> "pt-BR"
    [] name = "Italian" -> "it-IT"
    [] OTHER -> "nl-NL"

\* getLanguageName(code): names[code] || "English".
getLanguageName(code) ==
  CASE code \in {"nl-NL", "nl"} -> "Dutch"
    [] code \in {"en-US", "en-GB", "en"} -> "English"
    [] code \in {"de-DE", "de"} -> "German"
    [] code \in {"fr-FR", "fr"} -> "French"
    [] code \in {"es-ES", "es"} -> "Spanish"
    [] code \in {"ar-SA", "ar"} -> "Arabic"
    [] code \in {"tr-TR", "tr"} -> "Turkish"
    [] code \in {"pl-PL", "pl"} -> "Polish"
    [] code \in {"pt-BR", "pt"} -> "Portuguese"
    [] code \in {"it-IT", "it"} -> "Italian"
    [] OTHER -> "English"

\* ------------------------------------------------------------- texts
\* Symbols: "EMOJI" is one character of the emoji ranges, "BACKTICK" the
\* grave accent, "BULLET" the character U+2022, "\n" a newline,
\* "K" the run "detected_language": with its quotes, a short code such as
\* "en" the quoted JSON string of that code inside a directive.
Spaces == {" ", "\n"}
Digits == {"0", "1", "2", "3", "4", "5", "6", "7", "8", "9"}
Bullets == {"-", "BULLET", "*"}
JsonStrings == {"nl", "en", "de", "fr", "es", "ar", "tr", "pl", "pt", "it", "zz"}
IsSpace(c) == c \in Spaces
IsBullet(c) == c \in Bullets

Drop(s, n) == IF n >= Len(s) THEN <<>> ELSE SubSeq(s, n + 1, Len(s))

\* The number of leading symbols of s that are in set.
RECURSIVE RunLen(_, _)
RunLen(s, set) ==
  IF s = <<>> THEN 0 ELSE IF s[1] \notin set THEN 0 ELSE 1 + RunLen(Tail(s), set)

\* text.replace(/#{1,6}\s/g, "")
RECURSIVE StripHeaders(_)
StripHeaders(s) ==
  IF s = <<>> THEN <<>>
  ELSE LET n == RunLen(s, {"#"}) IN
       IF n >= 1 /\ n <= 6 /\ n < Len(s) /\ IsSpace(s[n + 1])
       THEN StripHeaders(Drop(s, n + 1))
       ELSE <<s[1]>> \o StripHeaders(Tail(s))

\* The least j >= 1 with s[j] = s[j+1] = "~" and no newline before j; 0 if none.
RECURSIVE TildePair(_, _)
TildePair(s, j) ==
  IF j + 1 > Len(s) THEN 0
  ELSE IF s[j] = "~" /\ s[j + 1] = "~" THEN j
  ELSE IF s[j] = "\n" THEN 0
  ELSE TildePair(s, j + 1)

\* text.replace(/~~(.*?)~~/g, "$1")
RECURSIVE StripStrike(_)
StripStrike(s) ==
  IF s = <<>> THEN <<>>
  ELSE IF Len(s) >= 2 /\ s[1] = "~" /\ s[2] = "~" /\ TildePair(Drop(s, 2), 1) > 0
       THEN LET j == TildePair(Drop(s, 2), 1) IN
            SubSeq(s, 3, j + 1) \o StripStrike(Drop(s, j + 3))
       ELSE <<s[1]>> \o StripStrike(Tail(s))

\* text.replace(/^[\s]*[-BULLET*]\s/gm, ""): atStart says the first symbol of s
\* follows a newline of the text or begins it.
RECURSIVE StripBullets(_, _)
StripBullets(s, atStart) ==
  IF s = <<>> THEN <<>>
  ELSE LET w == RunLen(s, Spaces) IN
       IF atStart /\ w + 2 <= Len(s) /\ IsBullet(s[w + 1]) /\ IsSpace(s[w + 2])
       THEN StripBullets(Drop(s, w + 2), s[w + 2] = "\n")
       ELSE <<s[1]>> \o StripBullets(Tail(s), s[1] = "\n")

\* text.replace(/^\d+\.\s/gm, "")
RECURSIVE StripNumbers(_, _)
StripNumbers(s, atStart) ==
  IF s = <<>> THEN <<>>
  ELSE LET n == RunLen(s, Digits) IN
       IF atStart /\ n >= 1 /\ n + 2 <= Len(s) /\ s[n + 1] = "." /\ IsSpace(s[n + 2])
       THEN StripNumbers(Drop(s, n + 2), s[n + 2] = "\n")
       ELSE <<s[1]>> \o StripNumbers(Tail(s), s[1] = "\n")

\* text.replace(/\s+/g, " ")
RECURSIVE CollapseSpaces(_)
CollapseSpaces(s) ==
  IF s = <<>> THEN <<>>
  ELSE IF IsSpace(s[1])
       THEN <<" ">> \o CollapseSpaces(Drop(s, RunLen(s, Spaces)))
       ELSE <<s[1]>> \o CollapseSpaces(Tail(s))

\* String.prototype.trim()
RECURSIVE TrimRight(_)
TrimRight(s) ==
  IF s # <<>> /\ IsSpace(s[Len(s)]) THEN TrimRight(SubSeq(s, 1, Len(s) - 1)) ELSE s

Trim(s) == TrimRight(Drop(s, RunLen(s, Spaces)))

NotIn(s, set) == SelectSeq(s, LAMBDA c : c \notin set)

stripEmojisAndFormatting(text) ==
  LET noEmoji == NotIn(text, {"EMOJI"})
      noStars == NotIn(noEmoji, {"*"})
      noHeads == StripHeaders(noStars)
      noTicks == NotIn(noHeads, {"BACKTICK"})
      noStrike == StripStrike(noTicks)
      noBullets == StripBullets(noStrike, TRUE)
      noNumbers == StripNumbers(noBullets, TRUE)
  IN Trim(CollapseSpaces(noNumbers))

\* The first index >= i of a "}" in s, 0 if there is none.
RECURSIVE CloseAt(_, _)
CloseAt(s, i) ==
  IF i > Len(s) THEN 0 ELSE IF s[i] = "}" THEN i ELSE CloseAt(s, i + 1)

\* Whether /\{[^}]*"detected_language"[^}]*\}/ matches at index i of s.
DirectiveAt(s, i) ==
  /\ s[i] = "{"
  /\ CloseAt(s, i + 1) > 0
  /\ \E k \in (i + 1)..(CloseAt(s, i + 1) - 1) : s[k] = "K"

\* reply.match(/\{[^}]*"detected_language"[^}]*\}/): the leftmost match, <<>> for null.
RECURSIVE MatchDirective(_, _)
MatchDirective(s, i) ==
  IF i > Len(s) THEN <<>>
  ELSE IF DirectiveAt(s, i) THEN SubSeq(s, i, CloseAt(s, i + 1))
  ELSE MatchDirective(s, i + 1)

\* JSON.parse(jsonMatch[0]).detected_language inside the try: the value when the
\* match is the object {"detected_language": "<code>"}, "null" when there is no
\* match or JSON.parse throws.
detectedLanguageFromClaude(reply) ==
  LET m == MatchDirective(reply, 1) IN
  IF Len(m) = 4 /\ m[2] = "K" /\ m[3] \in JsonStrings
  THEN m[3] ELSE NoLang

\* reply.replace(/\{[^}]*"detected_language"[^}]*\}/g, "")
RECURSIVE RemoveDirectives(_)
RemoveDirectives(s) ==
  IF s = <<>> THEN <<>>
  ELSE IF DirectiveAt(s, 1) THEN RemoveDirectives(Drop(s, CloseAt(s, 2)))
  ELSE <<s[1]>> \o RemoveDirectives(Tail(s))

cleanReplyOf(reply) == Trim(RemoveDirectives(reply))

\* ------------------------------------------------------------- inputs
\* req.body of POST /api/setup: the persona a business configures.
Personas ==
  { [businessName |-> "Bakery", languages |-> <<"Dutch", "English">>],
    [businessName |-> "Garage", languages |-> <<"English">>] }

\* A languages field that arrives as text, as a form post sends it: the JSON
\* text of an array, and a bare name, which is no JSON. A text is the
\* sequence of its symbols.
LanguageTexts == { <<"[", "Dutch", "]">>, <<"D", "u", "t", "c", "h">> }

\* req.body of POST /api/setup when the form is posted urlencoded.
FormPersonas ==
  { [businessName |-> "Kiosk", languages |-> text] : text \in LanguageTexts }

\* typeof languages === 'string'
IsText(languages) == languages \in LanguageTexts

\* JSON.parse(text) throws unless the text is the JSON text of an array.
JsonParseThrows(text) == ~(text[1] = "[" /\ text[Len(text)] = "]")

\* JSON.parse(text) of the JSON text of an array.
JsonParse(text) == SubSeq(text, 2, Len(text) - 1)

\* req.body.SpeechResult / message.voicePrompt: the caller's words, <<>> when
\* nothing was recognised.
Utterances == { <<>>, <<"h", "i">> }

\* message.lang of a prompt message: absent ("null"), a short code of
\* LANGUAGE_CODE_MAP, or a code that is no key of it.
DetectedLangs == {NoLang, "en", "xx"}

\* response.content[0].text of the remote completion.
Replies ==
  { <<"o", "k">>,
    <<"*", "*", "o", "k", "*", "*", " ", "EMOJI">>,
    <<"y", "e", "s", " ", "{", "K", "en", "}">> }

\* Fixed phrases the handlers speak, one symbol each.
TRIAL_USED == <<"already-used-your-free-trial">>
SETUP_FIRST == <<"set-up-your-trial-first">>
NO_BUSINESS_INFO == <<"could-not-find-your-business-information">>
SESSION_EXPIRED == <<"your-session-has-expired">>
TRIAL_OVER == <<"thanks-for-trying-goodbye">>
PLEASE_REPEAT == <<"did-not-catch-that-please-repeat">>
BRIEF_DELAY == <<"experiencing-a-brief-delay">>
TROUBLE == <<"having-trouble-processing-that">>

\* One directive of a TwiML response, or one message sent on a stream
\* connection (ws.close() is recorded as the directive "close").
Dir(d, a) == [d |-> d, a |-> a]
Say(text) == Dir("say", text)
Gather == Dir("gather", <<>>)
Hangup == Dir("hangup", <<>>)
Connect(greetingLanguage) == Dir("connect", <<greetingLanguage>>)
TextMessage(token) == Dir("text", token)
LanguageMessage(languageCode) == Dir("language", <<languageCode>>)
CloseWs == Dir("close", <<>>)

\* --------------------------------------------------------------- state
VARIABLES
  now,                        \* Date.now(), in units of 10 s
  ticks,                      \* how many times the clock has advanced
  ENABLE_TRIAL_RESTRICTIONS,  \* the process-wide flag, fixed at start
  heap,                       \* the call-session objects ever created
  callSessions,               \* Map CallSid -> session object (0: no entry)
  trialPhoneNumbers,          \* Set of caller identities
  businessSessions,           \* Map sessionId -> handle, in insertion order
  httpTurns,                  \* /api/voice/process requests awaiting the completion
  wsConns,                    \* stream connections accepted by the handler
  wsTurns,                    \* stream prompts awaiting the completion
  apiCalls,                   \* remote completions started so far
  ev,                         \* the event handled by the last step
  out                         \* what that step sent back

vars ==
  <<now, ticks, ENABLE_TRIAL_RESTRICTIONS, heap, callSessions, trialPhoneNumbers,
    businessSessions, httpTurns, wsConns, wsTurns, apiCalls, ev, out>>

\* The event a step handles: the handler, the call id it is for, the stream
\* connection it arrived on (0: none), the caller's words and the detected
\* language it carried.
Event(op, callSid, conn, utterance, lang) ==
  [op |-> op, callSid |-> callSid, conn |-> conn, utterance |-> utterance, lang |-> lang]

Init ==
  /\ now = 1
  /\ ticks = 0
  /\ ENABLE_TRIAL_RESTRICTIONS \in BOOLEAN
  /\ heap = <<>>
  /\ callSessions = [c \in CallSids |-> 0]
  /\ trialPhoneNumbers = {}
  /\ businessSessions = <<>>
  /\ httpTurns = {}
  /\ wsConns = <<>>
  /\ wsTurns = {}
  /\ apiCalls = 0
  /\ ev = Event("start", 0, 0, <<>>, NoLang)
  /\ out = <<>>

\* Date.now() advances: by one unit, or by a pause that ends one unit short
\* of the trial budget.
TickSteps == {1, TRIAL_LIMIT - 1}

\* The clock advances by one of `steps`, at most `most` times.
TickBy(steps, most) ==
  /\ ticks < most
  /\ ticks' = ticks + 1
  /\ \E d \in steps : now' = now + d
  /\ ev' = Event("tick", 0, 0, <<>>, NoLang)
  /\ out' = <<>>
  /\ UNCHANGED <<ENABLE_TRIAL_RESTRICTIONS, heap, callSessions, trialPhoneNumbers,
                 businessSessions, httpTurns, wsConns, wsTurns, apiCalls>>

Tick == TickBy(TickSteps, MaxTicks)

\* ---------------------------------------------------- POST /api/setup
\* generateSessionId(): the ids are random strings; the model numbers them.
\* The next id is one that no stored handle and no call session holds.
SessionIdsInUse ==
  {businessSessions[i].sessionId : i \in 1..Len(businessSessions)}
    \cup {heap[o].sessionId : o \in 1..Len(heap)}

generateSessionId ==
  IF SessionIdsInUse = {} THEN 1
  ELSE 1 + CHOOSE m \in SessionIdsInUse : \A n \in SessionIdsInUse : n <= m

\* The handler, while at most `handles` ids have been given out.
SetupFrom(bodies, handles) ==
  /\ generateSessionId <= handles
  /\ \E businessInfo \in bodies :
       businessSessions' =
         Append(businessSessions,
                [sessionId |-> generateSessionId,
                 businessInfo |-> businessInfo,
                 createdAt |-> now])
  /\ ev' = Event("setup", 0, 0, <<>>, NoLang)
  /\ out' = <<>>
  /\ UNCHANGED <<now, ticks, ENABLE_TRIAL_RESTRICTIONS, heap, callSessions,
                 trialPhoneNumbers, httpTurns, wsConns, wsTurns, apiCalls>>

SetupUpTo(handles) == SetupFrom(Personas, handles)

Setup == SetupUpTo(MaxHandles)

\* ------------------------------------------ setInterval cleanup
\* A test that also takes the handle created exactly one hour ago.
SweptAtTheHour(data) == data.createdAt <= now - ONE_HOUR

\* data.createdAt < oneHourAgo
SweptByAge(data) == data.createdAt < now - ONE_HOUR

\* The callback of the ten-minute interval timer.
Sweep ==
  /\ businessSessions' = SelectSeq(businessSessions, LAMBDA data : ~SweptByAge(data))
  /\ ev' = Event("sweep", 0, 0, <<>>, NoLang)
  /\ out' = <<>>
  /\ UNCHANGED <<now, ticks, ENABLE_TRIAL_RESTRICTIONS, heap, callSessions,
                 trialPhoneNumbers, httpTurns, wsConns, wsTurns, apiCalls>>

\* ------------------------------------------- POST /api/voice/incoming
NoSessionId == 0

\* twilioNumberToSession.get(to): the map is declared and read, never written.
twilioNumberToSession(to) == NoSessionId

\* A selection that prefers the oldest of the handles of the last half hour.
getActiveSessionOldest ==
  LET fresh == { i \in 1..Len(businessSessions) :
                   businessSessions[i].createdAt > now - THIRTY_MINUTES }
  IN IF fresh = {} THEN NoSessionId
     ELSE businessSessions[CHOOSE i \in fresh : \A j \in fresh : i <= j].sessionId

\* A selection without the half-hour window: the latest handle still stored.
getActiveSessionAnyAge ==
  IF Len(businessSessions) = 0 THEN NoSessionId
  ELSE businessSessions[Len(businessSessions)].sessionId

\* getActiveSession(): the first handle, in insertion order, among those with
\* the greatest createdAt that is later than thirty minutes ago and than 0.
getActiveSession ==
  LET fresh == { i \in 1..Len(businessSessions) :
                   /\ businessSessions[i].createdAt > now - THIRTY_MINUTES
                   /\ businessSessions[i].createdAt > 0 }
      best == { i \in fresh :
                  \A j \in fresh :
                    \/ businessSessions[j].createdAt < businessSessions[i].createdAt
                    \/ (businessSessions[j].createdAt = businessSessions[i].createdAt
                        /\ i <= j) }
  IN IF fresh = {} THEN NoSessionId
     ELSE businessSessions[CHOOSE i \in best : TRUE].sessionId

\* businessSessions.get(sessionId): the handle's place in the map, 0 if absent.
HandleOf(sessionId) ==
  IF \E i \in 1..Len(businessSessions) : businessSessions[i].sessionId = sessionId
  THEN CHOOSE i \in 1..Len(businessSessions) : businessSessions[i].sessionId = sessionId
  ELSE 0

\* The primary language of a persona.
primaryLanguage(businessInfo) ==
  LET languages == IF IsText(businessInfo.languages)
                   THEN JsonParse(businessInfo.languages)
                   ELSE businessInfo.languages
  IN IF Len(businessInfo.languages) > 0
     THEN langMap(languages[1])
     ELSE "nl-NL"

\* The languages field is a text that JSON.parse rejects: the handler throws
\* where it works out the primary language.
PrimaryLanguageThrows(businessInfo) ==
  /\ Len(businessInfo.languages) > 0
  /\ IsText(businessInfo.languages)
  /\ JsonParseThrows(businessInfo.languages)

\* The record callSessions.set(callSid, {...}) stores.
NewSession(businessInfo, callStartTime, from, sessionId) ==
  [businessInfo |-> businessInfo,
   conversationHistory |-> <<>>,
   startTime |-> callStartTime,
   from |-> from,
   sessionId |-> sessionId,
   currentLanguage |-> primaryLanguage(businessInfo),
   lastDetectedLanguage |-> NoLang,
   languageDetectionCount |-> 0]

\* A handler without the duplicate check.
HasSessionSkipped(callSid) == FALSE

\* A handler that consults the trial ledger before the duplicate check.
HasSessionAfterTrialCheck(callSid) ==
  /\ callSessions[callSid] # 0
  /\ ~(ENABLE_TRIAL_RESTRICTIONS /\ From(callSid) \in trialPhoneNumbers)

\* callSessions.has(callSid)
HasSession(callSid) == callSessions[callSid] # 0

\* A trial check that never finds the caller.
TrialAlreadyUsedSkipped(from) == FALSE

\* The trial check of the incoming-call handler.
TrialAlreadyUsed(from) == ENABLE_TRIAL_RESTRICTIONS /\ from \in trialPhoneNumbers

\* An admission that forgets to record the caller.
MarkTrialUsedForgotten(from) == trialPhoneNumbers

\* trialPhoneNumbers after the handler admitted a call from `from`.
MarkTrialUsed(from) ==
  IF ENABLE_TRIAL_RESTRICTIONS THEN trialPhoneNumbers \cup {from} ELSE trialPhoneNumbers

VoiceIncoming(callSid, to) ==
  LET from == From(callSid)
      mapped == twilioNumberToSession(to)
      sessionId == IF mapped = NoSessionId THEN getActiveSession ELSE mapped
      h == HandleOf(sessionId)
  IN
  /\ ev' = Event("incoming", callSid, 0, <<>>, NoLang)
  /\ IF HasSession(callSid)
     THEN \* duplicate request: empty TwiML
          /\ out' = <<>>
          /\ UNCHANGED <<heap, callSessions, trialPhoneNumbers>>
     ELSE IF TrialAlreadyUsed(from)
     THEN /\ out' = <<Say(TRIAL_USED), Hangup>>
          /\ UNCHANGED <<heap, callSessions, trialPhoneNumbers>>
     ELSE IF sessionId = NoSessionId
     THEN /\ out' = <<Say(SETUP_FIRST), Hangup>>
          /\ UNCHANGED <<heap, callSessions, trialPhoneNumbers>>
     ELSE IF h = 0
     THEN /\ out' = <<Say(NO_BUSINESS_INFO), Hangup>>
          /\ UNCHANGED <<heap, callSessions, trialPhoneNumbers>>
     ELSE IF PrimaryLanguageThrows(businessSessions[h].businessInfo)
     THEN \* thrown after trialPhoneNumbers.add and before callSessions.set:
          \* Express answers 500 and no TwiML
          /\ trialPhoneNumbers' = MarkTrialUsed(from)
          /\ out' = <<>>
          /\ UNCHANGED <<heap, callSessions>>
     ELSE /\ Len(heap) < MaxSessions
          /\ trialPhoneNumbers' = MarkTrialUsed(from)
          /\ heap' = Append(heap, NewSession(businessSessions[h].businessInfo,
                                             now, from, sessionId))
          /\ callSessions' = [callSessions EXCEPT ![callSid] = Len(heap) + 1]
          /\ out' = <<Connect(primaryLanguage(businessSessions[h].businessInfo))>>
  /\ UNCHANGED <<now, ticks, ENABLE_TRIAL_RESTRICTIONS, businessSessions, httpTurns,
                 wsConns, wsTurns, apiCalls>>

Incoming == \E callSid \in CallSids, to \in TwilioNumbers : VoiceIncoming(callSid, to)

\* ------------------------------------------- POST /api/voice/process
\* A budget test that lets the call run through the third minute's last instant.
TrialTimeOverStrict(session) == now - session.startTime > TRIAL_LIMIT

\* (Date.now() - session.startTime) / 1000 / 60 >= 3
TrialTimeOver(session) == now - session.startTime >= TRIAL_LIMIT

\* A removal that leaves the registry as it is.
DeleteSessionForgotten(callSid) == callSessions

\* callSessions.delete(callSid)
DeleteSession(callSid) == [callSessions EXCEPT ![callSid] = 0]

UserTurn(content) == [role |-> "user", content |-> content]
AssistantTurn(content) == [role |-> "assistant", content |-> content]

\* A history that keeps the reply without its directive.
PushTurnWithoutDirective(session, prompt, reply) ==
  [session EXCEPT !.conversationHistory =
     Append(Append(@, UserTurn(prompt)), AssistantTurn(cleanReplyOf(reply)))]

\* A history that keeps the replies only.
PushTurnReplyOnly(session, prompt, reply) ==
  [session EXCEPT !.conversationHistory = Append(@, AssistantTurn(reply))]

\* session.conversationHistory after the two push calls of a successful turn.
PushTurn(session, prompt, reply) ==
  [session EXCEPT !.conversationHistory =
     Append(Append(@, UserTurn(prompt)), AssistantTurn(reply))]

\* A prompt built from the persona of the handle a call arriving now would
\* be given, when there is one.
SystemPromptOfActiveHandle(businessInfo) ==
  IF getActiveSession = NoSessionId THEN businessInfo
  ELSE businessSessions[HandleOf(getActiveSession)].businessInfo

\* buildSystemPromptForVoice(businessInfo): the prompt text is the persona's
\* fields set in a fixed text, so the persona stands for it.
buildSystemPromptForVoice(businessInfo) == businessInfo

\* The part of the handler before `await Promise.race([apiCall, apiTimeout])`.
VoiceProcess(callSid, speechResult) ==
  LET o == callSessions[callSid] IN
  /\ IF o = 0
     THEN /\ out' = <<Say(SESSION_EXPIRED), Hangup>>
          /\ ev' = Event("process", callSid, 0, speechResult, NoLang)
          /\ UNCHANGED <<callSessions, httpTurns, apiCalls>>
     ELSE IF TrialTimeOver(heap[o])
     THEN /\ out' = <<Say(TRIAL_OVER), Hangup>>
          /\ ev' = Event("process", callSid, 0, speechResult, NoLang)
          /\ callSessions' = DeleteSession(callSid)
          /\ UNCHANGED <<httpTurns, apiCalls>>
     ELSE IF speechResult = <<>>
     THEN /\ out' = <<Say(PLEASE_REPEAT), Gather>>
          /\ ev' = Event("process", callSid, 0, speechResult, NoLang)
          /\ UNCHANGED <<callSessions, httpTurns, apiCalls>>
     ELSE /\ apiCalls < MaxTurns
          /\ ticks < MaxTicks   \* the 10-second timer can still be seen to fire
          /\ apiCalls' = apiCalls + 1
          /\ httpTurns' = httpTurns \cup
               {[tid |-> apiCalls + 1,
                 callSid |-> callSid,
                 session |-> o,
                 speechResult |-> speechResult,
                 systemPrompt |-> buildSystemPromptForVoice(heap[o].businessInfo),
                 messages |-> Append(heap[o].conversationHistory, UserTurn(speechResult)),
                 apiStartTime |-> now]}
          /\ out' = <<>>
          /\ ev' = Event("process-await", callSid, 0, speechResult, NoLang)
          /\ UNCHANGED callSessions
  /\ UNCHANGED <<now, ticks, ENABLE_TRIAL_RESTRICTIONS, heap, trialPhoneNumbers,
                 businessSessions, wsConns, wsTurns>>

\* The rest of the try block, once the completion has returned `reply` before
\* the 10-second timer fired.
VoiceProcessReturn(t, reply) ==
  LET cleanReply == stripEmojisAndFormatting(reply)
      session == PushTurn(heap[t.session], t.speechResult, reply)
  IN
  /\ now - t.apiStartTime <= API_TIMEOUT
  /\ httpTurns' = httpTurns \ {t}
  /\ heap' = [heap EXCEPT ![t.session] = session]
  /\ IF TrialTimeOver(session)
     THEN /\ out' = <<Say(cleanReply), Say(TRIAL_OVER), Hangup>>
          /\ callSessions' = DeleteSession(t.callSid)
     ELSE /\ out' = <<Say(cleanReply), Gather>>
          /\ UNCHANGED callSessions
  /\ ev' = Event("process-return", t.callSid, 0, t.speechResult, NoLang)
  /\ UNCHANGED <<now, ticks, ENABLE_TRIAL_RESTRICTIONS, trialPhoneNumbers,
                 businessSessions, wsConns, wsTurns, apiCalls>>

\* What the catch block sends. Its first statement reads apiStartTime, a const
\* declared inside the try block and so out of scope in the catch block: the
\* read throws a ReferenceError before any twiml.say, the handler's promise
\* rejects and res.send is never reached, whatever the error was.
CatchResponse(errorMessage) == <<>>

\* The completion rejected before the timer fired.
VoiceProcessError(t) ==
  /\ now - t.apiStartTime <= API_TIMEOUT
  /\ httpTurns' = httpTurns \ {t}
  /\ out' = CatchResponse("API error")
  /\ ev' = Event("process-error", t.callSid, 0, t.speechResult, NoLang)
  /\ UNCHANGED <<now, ticks, ENABLE_TRIAL_RESTRICTIONS, heap, callSessions,
                 trialPhoneNumbers, businessSessions, wsConns, wsTurns, apiCalls>>

\* A timeout path that asks for the completion once more.
VoiceProcessTimeoutRetried(t) ==
  /\ now - t.apiStartTime >= API_TIMEOUT
  /\ apiCalls < MaxTurns
  /\ apiCalls' = apiCalls + 1
  /\ httpTurns' = (httpTurns \ {t}) \cup
       {[t EXCEPT !.tid = apiCalls + 1, !.apiStartTime = now]}
  /\ out' = <<>>
  /\ ev' = Event("process-timeout", t.callSid, 0, t.speechResult, NoLang)
  /\ UNCHANGED <<now, ticks, ENABLE_TRIAL_RESTRICTIONS, heap, callSessions,
                 trialPhoneNumbers, businessSessions, wsConns, wsTurns>>

\* The 10-second timer fired first: reject(new Error('API timeout')).
VoiceProcessTimeout(t) ==
  /\ now - t.apiStartTime >= API_TIMEOUT
  /\ httpTurns' = httpTurns \ {t}
  /\ out' = CatchResponse("API timeout")
  /\ ev' = Event("process-timeout", t.callSid, 0, t.speechResult, NoLang)
  /\ UNCHANGED <<now, ticks, ENABLE_TRIAL_RESTRICTIONS, heap, callSessions,
                 trialPhoneNumbers, businessSessions, wsConns, wsTurns, apiCalls>>

\* The other outcome of the catch block's ReferenceError. The handler is an
\* async function and nothing catches the rejection of its promise: the file
\* registers no 'unhandledRejection' or 'uncaughtException' listener and an
\* Express 4 router ignores the promise a route returns. Node 15 and later
\* then raise the rejection as an uncaught exception and the process exits,
\* with every Map it held; the session objects stay behind unreferenced.
\* Where the rejection is only reported (older Node) or is passed to the
\* error handler (Express 5), the outcome is that of VoiceProcessError and
\* VoiceProcessTimeout.
UnhandledRejection(t) ==
  /\ callSessions' = [c \in CallSids |-> 0]
  /\ businessSessions' = <<>>
  /\ trialPhoneNumbers' = {}
  /\ httpTurns' = {}
  /\ wsTurns' = {}
  /\ wsConns' = [k \in 1..Len(wsConns) |-> [wsConns[k] EXCEPT !.state = "closed"]]
  /\ out' = <<>>
  /\ ev' = Event("process-exit", t.callSid, 0, t.speechResult, NoLang)
  /\ UNCHANGED <<now, ticks, ENABLE_TRIAL_RESTRICTIONS, heap, apiCalls>>

Process == \E callSid \in CallSids, speechResult \in Utterances :
             VoiceProcess(callSid, speechResult)
ProcessReturn == \E t \in httpTurns, reply \in Replies : VoiceProcessReturn(t, reply)
ProcessError == \E t \in httpTurns : VoiceProcessError(t)
ProcessTimeout == \E t \in httpTurns : VoiceProcessTimeout(t)

ProcessExit == \E t \in httpTurns : UnhandledRejection(t)

\* --------------------------------------- wss.on('connection') handler
NoCallSid == 0

\* What ws.send puts on the wire: nothing unless the socket is OPEN.
Sent(conn, messages) == IF conn.state = "open" THEN messages ELSE <<>>

\* The connection after ws.close().
CloseSocket(conn) ==
  IF conn.state = "open" THEN [conn EXCEPT !.state = "closing"] ELSE conn

\* The connection event: url.searchParams.get('CallSid') is callSid, or null.
WsConnection(callSid) ==
  /\ IF callSid = NoCallSid \/ callSessions[callSid] = 0
     THEN /\ out' = <<CloseWs>>
          /\ UNCHANGED wsConns
     ELSE /\ Len(wsConns) < MaxConns
          /\ wsConns' = Append(wsConns, [callSid |-> callSid,
                                         session |-> callSessions[callSid],
                                         state |-> "open"])
          /\ out' = <<>>
  /\ ev' = Event("ws-connection", callSid, 0, <<>>, NoLang)
  /\ UNCHANGED <<now, ticks, ENABLE_TRIAL_RESTRICTIONS, heap, callSessions,
                 trialPhoneNumbers, businessSessions, httpTurns, wsTurns, apiCalls>>

\* message.lang as a full code: LANGUAGE_CODE_MAP[detectedLang] || detectedLang.
fullLangCode(detectedLang) ==
  IF LANGUAGE_CODE_MAP(detectedLang) # "undefined"
  THEN LANGUAGE_CODE_MAP(detectedLang)
  ELSE detectedLang

\* A detection block that keeps the candidate when the active language is heard.
DetectLanguageKeepsStreak(session, detectedLang) ==
  LET full == fullLangCode(detectedLang) IN
  IF detectedLang = NoLang THEN session
  ELSE IF full # session.currentLanguage
  THEN IF session.lastDetectedLanguage = full
       THEN IF session.languageDetectionCount + 1 >= 2
            THEN [session EXCEPT !.currentLanguage = full,
                                 !.languageDetectionCount = 0,
                                 !.lastDetectedLanguage = NoLang]
            ELSE [session EXCEPT !.languageDetectionCount = @ + 1]
       ELSE [session EXCEPT !.lastDetectedLanguage = full,
                            !.languageDetectionCount = 1]
  ELSE session

\* A detection block that switches on the third detection in a row.
DetectLanguageOnThird(session, detectedLang) ==
  LET full == fullLangCode(detectedLang) IN
  IF detectedLang = NoLang THEN session
  ELSE IF full # session.currentLanguage
  THEN IF session.lastDetectedLanguage = full
       THEN IF session.languageDetectionCount + 1 >= 3
            THEN [session EXCEPT !.currentLanguage = full,
                                 !.languageDetectionCount = 0,
                                 !.lastDetectedLanguage = NoLang]
            ELSE [session EXCEPT !.languageDetectionCount = @ + 1]
       ELSE [session EXCEPT !.lastDetectedLanguage = full,
                            !.languageDetectionCount = 1]
  ELSE [session EXCEPT !.lastDetectedLanguage = NoLang,
                       !.languageDetectionCount = 0]

\* A detection block that counts every detection of a language other than
\* the active one, whichever candidate is pending.
DetectLanguageCountsAnyOther(session, detectedLang) ==
  LET full == fullLangCode(detectedLang) IN
  IF detectedLang = NoLang THEN session
  ELSE IF full # session.currentLanguage
  THEN IF session.languageDetectionCount + 1 >= 2
       THEN [session EXCEPT !.currentLanguage = full,
                            !.languageDetectionCount = 0,
                            !.lastDetectedLanguage = NoLang]
       ELSE [session EXCEPT !.lastDetectedLanguage = full,
                            !.languageDetectionCount = @ + 1]
  ELSE [session EXCEPT !.lastDetectedLanguage = NoLang,
                       !.languageDetectionCount = 0]

\* A detection block that keeps the candidate when it switches to it.
DetectLanguageKeepsCandidate(session, detectedLang) ==
  LET full == fullLangCode(detectedLang) IN
  IF detectedLang = NoLang THEN session
  ELSE IF full # session.currentLanguage
  THEN IF session.lastDetectedLanguage = full
       THEN IF session.languageDetectionCount + 1 >= 2
            THEN [session EXCEPT !.currentLanguage = full,
                                 !.languageDetectionCount = 0]
            ELSE [session EXCEPT !.languageDetectionCount = @ + 1]
       ELSE [session EXCEPT !.lastDetectedLanguage = full,
                            !.languageDetectionCount = 1]
  ELSE [session EXCEPT !.lastDetectedLanguage = NoLang,
                       !.languageDetectionCount = 0]

\* A detection block that also runs when the prompt carries no language.
DetectLanguageUnguarded(session, detectedLang) ==
  LET full == fullLangCode(detectedLang) IN
  IF full # session.currentLanguage
  THEN IF session.lastDetectedLanguage = full
       THEN IF session.languageDetectionCount + 1 >= 2
            THEN [session EXCEPT !.currentLanguage = full,
                                 !.languageDetectionCount = 0,
                                 !.lastDetectedLanguage = NoLang]
            ELSE [session EXCEPT !.languageDetectionCount = @ + 1]
       ELSE [session EXCEPT !.lastDetectedLanguage = full,
                            !.languageDetectionCount = 1]
  ELSE [session EXCEPT !.lastDetectedLanguage = NoLang,
                       !.languageDetectionCount = 0]

\* The language detection block: the session after it.
DetectLanguage(session, detectedLang) ==
  LET full == fullLangCode(detectedLang) IN
  IF detectedLang = NoLang THEN session
  ELSE IF full # session.currentLanguage
  THEN IF session.lastDetectedLanguage = full
       THEN IF session.languageDetectionCount + 1 >= 2
            THEN [session EXCEPT !.currentLanguage = full,
                                 !.languageDetectionCount = 0,
                                 !.lastDetectedLanguage = NoLang]
            ELSE [session EXCEPT !.languageDetectionCount = @ + 1]
       ELSE [session EXCEPT !.lastDetectedLanguage = full,
                            !.languageDetectionCount = 1]
  ELSE [session EXCEPT !.lastDetectedLanguage = NoLang,
                       !.languageDetectionCount = 0]

\* The sendLanguageSwitch call of the language detection block, if it is made.
DetectionSwitch(session, detectedLang) ==
  IF DetectLanguage(session, detectedLang).currentLanguage # session.currentLanguage
  THEN <<LanguageMessage(fullLangCode(detectedLang))>>
  ELSE <<>>

\* A 'prompt' message, up to `await anthropic.messages.create(...)`, while
\* fewer than `turns` completions have been requested.
WsPromptUpTo(turns, k, voicePrompt, detectedLang) ==
  LET conn == wsConns[k]
      session == heap[conn.session]
      detected == DetectLanguage(session, detectedLang)
  IN
  /\ conn.state \in {"open", "closing"}
  /\ IF TrialTimeOver(session)
     THEN /\ out' = Sent(conn, <<TextMessage(TRIAL_OVER)>>) \o <<CloseWs>>
          /\ callSessions' = DeleteSession(conn.callSid)
          /\ wsConns' = [wsConns EXCEPT ![k] = CloseSocket(conn)]
          /\ ev' = Event("ws-prompt", conn.callSid, k, voicePrompt, detectedLang)
          /\ UNCHANGED <<heap, wsTurns, apiCalls>>
     ELSE /\ apiCalls < turns
          /\ apiCalls' = apiCalls + 1
          /\ heap' = [heap EXCEPT ![conn.session] = detected]
          /\ out' = Sent(conn, DetectionSwitch(session, detectedLang))
          /\ wsTurns' = wsTurns \cup
               {[tid |-> apiCalls + 1,
                 conn |-> k,
                 voicePrompt |-> voicePrompt,
                 detectedLang |-> detectedLang,
                 systemPrompt |-> <<detected.businessInfo,
                                    getLanguageName(detected.currentLanguage)>>,
                 messages |-> Append(detected.conversationHistory, UserTurn(voicePrompt))]}
          /\ ev' = Event("ws-prompt-await", conn.callSid, k, voicePrompt, detectedLang)
          /\ UNCHANGED <<callSessions, wsConns>>
  /\ UNCHANGED <<now, ticks, ENABLE_TRIAL_RESTRICTIONS, trialPhoneNumbers,
                 businessSessions, httpTurns>>

WsPrompt(k, voicePrompt, detectedLang) ==
  WsPromptUpTo(MaxTurns, k, voicePrompt, detectedLang)

\* A directive block that also drops the pending candidate when it switches.
ApplyDirectiveClearsStreak(session, reply) ==
  LET code == detectedLanguageFromClaude(reply) IN
  IF code # NoLang /\ LANGUAGE_CODE_MAP(code) # "undefined"
     /\ LANGUAGE_CODE_MAP(code) # session.currentLanguage
  THEN [session EXCEPT !.currentLanguage = LANGUAGE_CODE_MAP(code),
                       !.lastDetectedLanguage = NoLang,
                       !.languageDetectionCount = 0]
  ELSE session

\* A directive block that waits until no candidate language is pending.
ApplyDirectiveWhenIdle(session, reply) ==
  LET code == detectedLanguageFromClaude(reply) IN
  IF code # NoLang /\ LANGUAGE_CODE_MAP(code) # "undefined"
     /\ LANGUAGE_CODE_MAP(code) # session.currentLanguage
     /\ session.languageDetectionCount = 0
  THEN [session EXCEPT !.currentLanguage = LANGUAGE_CODE_MAP(code)]
  ELSE session

\* The session after the block that applies a language directive of the reply.
ApplyDirective(session, reply) ==
  LET code == detectedLanguageFromClaude(reply) IN
  IF code # NoLang /\ LANGUAGE_CODE_MAP(code) # "undefined"
     /\ LANGUAGE_CODE_MAP(code) # session.currentLanguage
  THEN [session EXCEPT !.currentLanguage = LANGUAGE_CODE_MAP(code)]
  ELSE session

\* A directive block that announces the language the conversation leaves.
DirectiveSwitchNamesOld(session, reply) ==
  IF ApplyDirective(session, reply).currentLanguage # session.currentLanguage
  THEN <<LanguageMessage(session.currentLanguage)>>
  ELSE <<>>

\* The sendLanguageSwitch call of that block, if it is made.
DirectiveSwitch(session, reply) ==
  IF ApplyDirective(session, reply).currentLanguage # session.currentLanguage
  THEN <<LanguageMessage(ApplyDirective(session, reply).currentLanguage)>>
  ELSE <<>>

\* The rest of the inner try block, once the completion has returned `reply`.
WsPromptReturn(t, reply) ==
  LET conn == wsConns[t.conn]
      session == heap[conn.session]
      ttsReply == stripEmojisAndFormatting(cleanReplyOf(reply))
  IN
  /\ wsTurns' = wsTurns \ {t}
  /\ heap' = [heap EXCEPT ![conn.session] =
                PushTurn(ApplyDirective(session, reply), t.voicePrompt, reply)]
  /\ out' = Sent(conn, DirectiveSwitch(session, reply) \o <<TextMessage(ttsReply)>>)
  /\ ev' = Event("ws-prompt-return", conn.callSid, t.conn, t.voicePrompt, NoLang)
  /\ UNCHANGED <<now, ticks, ENABLE_TRIAL_RESTRICTIONS, callSessions, trialPhoneNumbers,
                 businessSessions, httpTurns, wsConns, apiCalls>>

\* The inner catch block: the completion rejected.
WsPromptError(t) ==
  LET conn == wsConns[t.conn] IN
  /\ wsTurns' = wsTurns \ {t}
  /\ out' = Sent(conn, <<TextMessage(TROUBLE)>>)
  /\ ev' = Event("ws-prompt-error", conn.callSid, t.conn, t.voicePrompt, NoLang)
  /\ UNCHANGED <<now, ticks, ENABLE_TRIAL_RESTRICTIONS, heap, callSessions,
                 trialPhoneNumbers, businessSessions, httpTurns, wsConns, apiCalls>>

\* ws.on('close'): the transport closed the socket, or the closing handshake
\* the server began has ended.
WsClose(k) ==
  /\ wsConns[k].state \in {"open", "closing"}
  /\ wsConns' = [wsConns EXCEPT ![k].state = "closed"]
  /\ callSessions' = DeleteSession(wsConns[k].callSid)
  /\ out' = <<>>
  /\ ev' = Event("ws-close", wsConns[k].callSid, k, <<>>, NoLang)
  /\ UNCHANGED <<now, ticks, ENABLE_TRIAL_RESTRICTIONS, heap, trialPhoneNumbers,
                 businessSessions, httpTurns, wsTurns, apiCalls>>

\* data of a stream message that is no prompt: text that is no JSON, the
\* JSON text null, and objects of type setup, dtmf and interrupt.
StreamData == {"not-json", "null", "setup", "dtmf", "interrupt"}

\* What the handler finds in message.type: JSON.parse throws on text that is
\* no JSON, and reading .type of null throws.
MessageType(data) ==
  IF data \in {"not-json", "null"} THEN "throws" ELSE data

\* A catch block that gives the connection up.
CatchMessageErrorCloses(conn) == CloseSocket(conn)

\* catch (error) of the message handler: the error is logged.
CatchMessageError(conn) == conn

\* The message event for data that is no prompt: neither if-block of the
\* handler is entered, or the catch block is.
WsMessage(k, data) ==
  LET conn == wsConns[k]
      type == MessageType(data)
  IN
  /\ conn.state \in {"open", "closing"}
  /\ wsConns' = [wsConns EXCEPT ![k] = IF type = "throws"
                                       THEN CatchMessageError(conn)
                                       ELSE conn]
  /\ out' = <<>>
  /\ ev' = Event(CASE type = "throws" -> "ws-malformed"
                   [] type = "interrupt" -> "ws-interrupt"
                   [] OTHER -> "ws-unknown",
                 conn.callSid, k, <<>>, NoLang)
  /\ UNCHANGED <<now, ticks, ENABLE_TRIAL_RESTRICTIONS, heap, callSessions,
                 trialPhoneNumbers, businessSessions, httpTurns, wsTurns, apiCalls>>

Connection == \E callSid \in CallSids \cup {NoCallSid} : WsConnection(callSid)
PromptWith(langs) ==
  \E k \in 1..Len(wsConns), voicePrompt \in Utterances, detectedLang \in langs :
    WsPrompt(k, voicePrompt, detectedLang)
Prompt == PromptWith(DetectedLangs)
PromptPlain == PromptWith({NoLang})
PromptReturn == \E t \in wsTurns, reply \in Replies : WsPromptReturn(t, reply)
PromptError == \E t \in wsTurns : WsPromptError(t)
Close == \E k \in 1..Len(wsConns) : WsClose(k)
Message == \E k \in 1..Len(wsConns), data \in StreamData : WsMessage(k, data)

Next ==
  \/ Tick
  \/ Setup
  \/ Incoming
  \/ Process
  \/ ProcessReturn
  \/ ProcessError
  \/ ProcessTimeout
  \/ Connection
  \/ Prompt
  \/ PromptReturn
  \/ PromptError
  \/ Close
  \/ Message
  \/ Sweep
  \/ ProcessExit

\* The whole program.
Spec == Init /\ [][Next]_vars

\* The program when the transport uses the request/response binding only.
NextA ==
  \/ Tick
  \/ Setup
  \/ Incoming
  \/ Process
  \/ ProcessReturn
  \/ ProcessError
  \/ ProcessTimeout

SpecA == Init /\ [][NextA]_vars

\* Two calls on the request/response binding, on a build where an unhandled
\* rejection ends the process.
NextTwo ==
  \/ Tick
  \/ Setup
  \/ Incoming
  \/ Process
  \/ ProcessReturn
  \/ ProcessError
  \/ ProcessTimeout
  \/ ProcessExit

SpecTwo == Init /\ [][NextTwo]_vars

\* Handles set up from JSON bodies and from form posts, and the calls that
\* arrive for them.
FormSetup == SetupFrom(Personas \cup FormPersonas, MaxSweepHandles)

NextLedger ==
  \/ Tick
  \/ FormSetup
  \/ Incoming

SpecLedger == Init /\ [][NextLedger]_vars

\* The program with both bindings in use, when the transport presents one call
\* id (which may be presented again after its session is removed).
IncomingOne == \E to \in TwilioNumbers : VoiceIncoming(1, to)

NextOne ==
  \/ Tick
  \/ Setup
  \/ IncomingOne
  \/ Process
  \/ ProcessReturn
  \/ ProcessError
  \/ ProcessTimeout
  \/ Connection
  \/ PromptPlain
  \/ PromptReturn
  \/ PromptError
  \/ Close

SpecOne == Init /\ [][NextOne]_vars

\* The stream binding alone, with one call id and language detection.
NextStream ==
  \/ Tick
  \/ Setup
  \/ IncomingOne
  \/ Connection
  \/ Prompt
  \/ PromptReturn
  \/ PromptError
  \/ Close

SpecStream == Init /\ [][NextStream]_vars

\* message.lang of the prompts of a conversation: absent, the two languages
\* of the personas, and a code that is no key of LANGUAGE_CODE_MAP.
TalkLangs == DetectedLangs \cup {"nl"}

\* response.content[0].text of the completions of a conversation: plain, with
\* a directive naming English, with a directive naming a code that is no key
\* of LANGUAGE_CODE_MAP, with a directive that is no JSON, and with a
\* directive that lacks its closing brace.
TalkReplies ==
  { <<"o", "k">>,
    <<"y", "e", "s", " ", "{", "K", "en", "}">>,
    <<"n", "o", " ", "{", "K", "zz", "}">>,
    <<"n", "o", " ", "{", "K", "}">>,
    <<"n", "o", " ", "{", "K", "en">> }

TalkPrompt ==
  \E k \in 1..Len(wsConns), detectedLang \in TalkLangs :
    WsPromptUpTo(MaxTalkTurns, k, <<"h", "i">>, detectedLang)
TalkReturn == \E t \in wsTurns, reply \in TalkReplies : WsPromptReturn(t, reply)

\* One conversation on the stream binding, within its budget: the prompts carry
\* every kind of detected language and the replies every kind of directive.
NextTalk ==
  \/ Setup
  \/ IncomingOne
  \/ Connection
  \/ TalkPrompt
  \/ TalkReturn
  \/ PromptError
  \/ Close

SpecTalk == Init /\ [][NextTalk]_vars

\* One call on the stream binding whose socket also carries messages that are
\* no prompts.
NextRelay ==
  \/ Setup
  \/ IncomingOne
  \/ Connection
  \/ PromptPlain
  \/ Message
  \/ PromptReturn
  \/ PromptError
  \/ Close

SpecRelay == Init /\ [][NextRelay]_vars

\* Date.now() advances by one unit, by half an hour or by an hour.
SweepTickSteps == {1, THIRTY_MINUTES, ONE_HOUR}

SweepTick == TickBy(SweepTickSteps, MaxSweepTicks)
SweepSetup == SetupUpTo(MaxSweepHandles)

\* The handles over the hours: several personas are set up, the sweep runs,
\* and one call id is served on the request/response binding.
NextSweep ==
  \/ SweepTick
  \/ SweepSetup
  \/ Sweep
  \/ IncomingOne
  \/ Process
  \/ ProcessReturn

SpecSweep == Init /\ [][NextSweep]_vars

\* res.json / res.status(...).json of GET /api/phone-number.
JsonResponse(status, body) == Dir("json", <<status, body>>)

\* A handler that answers only for the handles a call would be given.
KnowsHandleWhileFresh(sessionId) ==
  \E i \in 1..Len(businessSessions) :
    /\ businessSessions[i].sessionId = sessionId
    /\ businessSessions[i].createdAt > now - THIRTY_MINUTES

\* businessSessions.has(sessionId)
KnowsHandle(sessionId) ==
  \E i \in 1..Len(businessSessions) : businessSessions[i].sessionId = sessionId

\* GET /api/phone-number?sessionId=...; configured tells whether the Twilio
\* client and TWILIO_PHONE_NUMBER are set in the environment.
GetPhoneNumber(sessionId, configured) ==
  /\ out' = IF sessionId = NoSessionId \/ ~KnowsHandle(sessionId)
            THEN <<JsonResponse(400, "invalid-session")>>
            ELSE IF ~configured
            THEN <<JsonResponse(500, "twilio-not-configured")>>
            ELSE <<JsonResponse(200, "phone-number")>>
  /\ ev' = Event("phone-number", 0, sessionId, <<>>, NoLang)
  /\ UNCHANGED <<now, ticks, ENABLE_TRIAL_RESTRICTIONS, heap, callSessions,
                 trialPhoneNumbers, businessSessions, httpTurns, wsConns, wsTurns,
                 apiCalls>>

PhoneNumber ==
  \E sessionId \in 0..MaxSweepHandles, configured \in BOOLEAN :
    GetPhoneNumber(sessionId, configured)

\* The handles from their creation to their removal, the requests for the
\* phone number and the calls that arrive meanwhile.
NextHandles ==
  \/ SweepTick
  \/ SweepSetup
  \/ Sweep
  \/ PhoneNumber
  \/ Incoming

SpecHandles == Init /\ [][NextHandles]_vars

\* The texts the sanitizer is applied to: every text of at most MaxLen symbols
\* over the markers its patterns look for, white space and a letter.
TextSymbols == {"-", "#", "*", "BACKTICK", "~", "1", ".", " ", "\n", "a"}
Texts == UNION { [1..n -> TextSymbols] : n \in 0..MaxLen }

\* A reply text is at hand, no call in progress.
InitText ==
  /\ now = 1
  /\ ticks = 0
  /\ ENABLE_TRIAL_RESTRICTIONS = TRUE
  /\ heap = <<>>
  /\ callSessions = [c \in CallSids |-> 0]
  /\ trialPhoneNumbers = {}
  /\ businessSessions = <<>>
  /\ httpTurns = {}
  /\ wsConns = <<>>
  /\ wsTurns = {}
  /\ apiCalls = 0
  /\ \E text \in Texts : ev = Event("text", 0, 0, text, NoLang)
  /\ out = <<>>

\* const cleanReply = stripEmojisAndFormatting(reply); twiml.say(cleanReply)
Sanitize ==
  /\ ev.op = "text"
  /\ out' = <<Say(stripEmojisAndFormatting(ev.utterance))>>
  /\ ev' = [ev EXCEPT !.op = "sanitized"]
  /\ UNCHANGED <<now, ticks, ENABLE_TRIAL_RESTRICTIONS, heap, callSessions,
                 trialPhoneNumbers, businessSessions, httpTurns, wsConns, wsTurns,
                 apiCalls>>

\* The sanitizer applied to every text.
SpecText == InitText /\ [][Sanitize]_vars

\* ------------------------------------------------------------ claims
Objects == 1..Len(heap)

\* C1: a "call started" event whose call id is already in the session registry
\* is answered with an empty response, creates no second session record and
\* leaves the existing session (history, start time, language state) unchanged.
C1_DuplicateStartIsNoOp ==
  [][\A c \in CallSids :
       (ev'.op = "incoming" /\ ev'.callSid = c /\ callSessions[c] # 0)
         => /\ out' = <<>>
            /\ callSessions' = callSessions
            /\ heap' = heap]_vars

\* A duplicate start event was answered for a call whose session has a history.
C1_Witness ==
  /\ ev.op = "incoming"
  /\ out = <<>>
  /\ callSessions[ev.callSid] # 0
  /\ heap[callSessions[ev.callSid]].conversationHistory # <<>>

\* Some call of this caller identity was admitted before.
AdmittedBefore(from) == \E o \in Objects : heap[o].from = from

C3_AtMostOneAdmission ==
  ENABLE_TRIAL_RESTRICTIONS =>
    /\ \A o1, o2 \in Objects : heap[o1].from = heap[o2].from => o1 = o2
    /\ \A o \in Objects : heap[o].from \in trialPhoneNumbers

\* Enforcement is on, the first call of a caller is still in progress and the
\* start event of its second call was just rejected.
C3_Witness ==
  /\ ENABLE_TRIAL_RESTRICTIONS
  /\ ev.op = "incoming"
  /\ out = <<Say(TRIAL_USED), Hangup>>
  /\ \E c \in CallSids :
       c # ev.callSid /\ From(c) = From(ev.callSid) /\ callSessions[c] # 0

\* The ops of the steps that handle a caller utterance in each binding.
ProcessOps == {"process", "process-await"}
PromptOps == {"ws-prompt", "ws-prompt-await"}

\* C4: in both bindings a caller utterance that arrives when the time since the
\* session's start is at least the budget gets the closing utterance and the
\* end of the call, no completion is requested and the call id leaves the
\* registry; from then on a turn or a connection for that call id is rejected
\* as not found, and only a new call-started event can register the id again.
C4_BudgetSpentBeforeTurn ==
  [][/\ \A c \in CallSids :
          (ev'.op \in ProcessOps /\ ev'.callSid = c)
            => IF callSessions[c] = 0
               THEN /\ out' = <<Say(SESSION_EXPIRED), Hangup>>
                    /\ apiCalls' = apiCalls
                    /\ httpTurns' = httpTurns
                    /\ callSessions' = callSessions
               ELSE now - heap[callSessions[c]].startTime >= TRIAL_LIMIT
                      => /\ out' = <<Say(TRIAL_OVER), Hangup>>
                         /\ apiCalls' = apiCalls
                         /\ httpTurns' = httpTurns
                         /\ callSessions'[c] = 0
     /\ \A k \in 1..Len(wsConns) :
          (ev'.op \in PromptOps /\ ev'.conn = k
           /\ now - heap[wsConns[k].session].startTime >= TRIAL_LIMIT)
            => /\ out' = IF wsConns[k].state = "open"
                         THEN <<TextMessage(TRIAL_OVER), CloseWs>>
                         ELSE <<CloseWs>>
               /\ apiCalls' = apiCalls
               /\ wsTurns' = wsTurns
               /\ callSessions'[wsConns[k].callSid] = 0
               /\ wsConns'[k].state # "open"
     /\ \A c \in CallSids :
          (ev'.op = "ws-connection" /\ ev'.callSid = c /\ callSessions[c] = 0)
            => /\ out' = <<CloseWs>>
               /\ wsConns' = wsConns
     /\ \A c \in CallSids :
          (callSessions[c] = 0 /\ ev'.op # "incoming") => callSessions'[c] = 0]_vars

\* A stream prompt met the spent budget and, after it, a turn for the same call
\* id on the request/response binding was rejected as not found.
C4_Witness ==
  /\ ev.op = "process"
  /\ out = <<Say(SESSION_EXPIRED), Hangup>>
  /\ \E k \in 1..Len(wsConns) :
       /\ wsConns[k].callSid = ev.callSid
       /\ wsConns[k].state = "closing"
       /\ now - heap[wsConns[k].session].startTime >= TRIAL_LIMIT

\* C5: in both bindings, when a completion returns at a time at which the
\* budget is spent, the response of that turn is the reply followed by the
\* closing utterance and the end of the call, and the call id leaves the registry.
C5_BudgetRecheckedAfterCompletion ==
  [][/\ \A t \in httpTurns :
          (ev'.op = "process-return" /\ t \notin httpTurns'
           /\ now - heap[t.session].startTime >= TRIAL_LIMIT)
            => /\ Len(out') = 3
               /\ out'[1].d = "say"
               /\ out'[2] = Say(TRIAL_OVER)
               /\ out'[3] = Hangup
               /\ callSessions'[t.callSid] = 0
     /\ \A t \in wsTurns :
          (ev'.op = "ws-prompt-return" /\ t \notin wsTurns'
           /\ wsConns[t.conn].state = "open"
           /\ now - heap[wsConns[t.conn].session].startTime >= TRIAL_LIMIT)
            => /\ Len(out') = 3
               /\ out'[1].d = "text"
               /\ out'[2] = TextMessage(TRIAL_OVER)
               /\ out'[3] = CloseWs
               /\ callSessions'[wsConns[t.conn].callSid] = 0]_vars

\* C6: in both bindings an empty utterance for a session that is in the
\* registry and within its budget gets exactly one "please repeat" utterance,
\* requests no completion and leaves the registry and every history unchanged.
C6_EmptyUtteranceAsksToRepeat ==
  [][/\ \A c \in CallSids :
          (ev'.op \in ProcessOps /\ ev'.callSid = c /\ ev'.utterance = <<>>
           /\ callSessions[c] # 0
           /\ now - heap[callSessions[c]].startTime < TRIAL_LIMIT)
            => /\ out' = <<Say(PLEASE_REPEAT), Gather>>
               /\ apiCalls' = apiCalls
               /\ heap' = heap
               /\ callSessions' = callSessions
     /\ \A k \in 1..Len(wsConns) :
          (ev'.op \in PromptOps /\ ev'.conn = k /\ ev'.utterance = <<>>
           /\ wsConns[k].state = "open"
           /\ callSessions[wsConns[k].callSid] = wsConns[k].session
           /\ now - heap[wsConns[k].session].startTime < TRIAL_LIMIT)
            => /\ out' = <<TextMessage(PLEASE_REPEAT)>>
               /\ apiCalls' = apiCalls
               /\ heap' = heap
               /\ callSessions' = callSessions]_vars

\* C7: when the 10-second timer of a turn fires before the completion returns,
\* the caller gets the "brief delay" utterance followed by wait-for-speech, and
\* the registry and every history are what they were.
C7_TimeoutGetsFiller ==
  [][ev'.op = "process-timeout"
       => /\ out' = <<Say(BRIEF_DELAY), Gather>>
          /\ callSessions' = callSessions
          /\ heap' = heap]_vars

\* C8: when the completion of a turn fails with an error that is not the
\* timeout, in both bindings the caller gets the apology (followed, on the
\* request/response binding, by wait-for-speech), and the registry and every
\* history are what they were, so that the next turn starts from the same state.
C8_FailureGetsApology ==
  [][/\ ev'.op = "process-error"
          => /\ out' = <<Say(TROUBLE), Gather>>
             /\ callSessions' = callSessions
             /\ heap' = heap
     /\ \A k \in 1..Len(wsConns) :
          (ev'.op = "ws-prompt-error" /\ ev'.conn = k /\ wsConns[k].state = "open")
            => /\ out' = <<TextMessage(TROUBLE)>>
               /\ callSessions' = callSessions
               /\ heap' = heap]_vars

\* The program of SpecOne with its timers: the clock advances and the
\* 10-second timer of a turn on the request/response binding fires when it is
\* due. Nothing makes a completion return.
FairOne == SpecOne /\ WF_vars(Tick) /\ WF_vars(ProcessTimeout)

\* A completion is awaited for a turn of call id c: on the request/response
\* binding, or on a stream connection that is open.
TurnInFlight(c) ==
  \/ \E t \in httpTurns : t.callSid = c
  \/ \E t \in wsTurns : wsConns[t.conn].callSid = c /\ wsConns[t.conn].state = "open"

\* The step that ended a turn of call id c sent something to the caller.
TurnAnswered(c) ==
  /\ ev.callSid = c
  /\ ev.op \in {"process-return", "process-error", "process-timeout",
                "ws-prompt-return", "ws-prompt-error"}
  /\ out # <<>>

\* The stream connection of call id c is no longer open.
StreamGone(c) ==
  \E k \in 1..Len(wsConns) : wsConns[k].callSid = c /\ wsConns[k].state # "open"

\* C9: in both bindings, once a completion is awaited for a caller utterance,
\* an outgoing utterance for that turn is eventually sent (or the caller's
\* stream has gone), even if the completion never returns. The turns looked at
\* are those awaited while the clock has yet to advance, so that the 10 seconds
\* are seen to pass.
C9_EveryTurnIsAnswered ==
  \A c \in CallSids :
    (TurnInFlight(c) /\ ticks < MaxTicks) ~> (TurnAnswered(c) \/ StreamGone(c))

\* Some message of a response is a set-language message.
SetsLanguage(messages) == \E i \in 1..Len(messages) : messages[i].d = "language"

\* The reply a turn that has just ended stored in the history of session o.
StoredReply(session) ==
  session.conversationHistory[Len(session.conversationHistory)].content

\* C10: a prompt that carries no detected language, or the session's active
\* language, leaves the active language unchanged and sends no set-language
\* message; so does a completed turn whose reply holds no switch directive;
\* and no other step changes the active language of any session. Along a
\* sequence of such turns the active language therefore stays the primary
\* language the session started with.
C10_ActiveLanguageInvariant ==
  [][/\ \A k \in 1..Len(wsConns) :
          (ev'.op \in PromptOps /\ ev'.conn = k
           /\ \/ ev'.lang = NoLang
              \/ fullLangCode(ev'.lang) = heap[wsConns[k].session].currentLanguage)
            => /\ heap'[wsConns[k].session].currentLanguage =
                    heap[wsConns[k].session].currentLanguage
               /\ ~SetsLanguage(out')
     /\ \A k \in 1..Len(wsConns) :
          (ev'.op = "ws-prompt-return" /\ ev'.conn = k
           /\ detectedLanguageFromClaude(StoredReply(heap'[wsConns[k].session])) = NoLang)
            => /\ heap'[wsConns[k].session].currentLanguage =
                    heap[wsConns[k].session].currentLanguage
               /\ ~SetsLanguage(out')
     /\ ev'.op \notin {"ws-prompt-await", "ws-prompt-return"}
          => /\ \A o \in Objects : heap'[o].currentLanguage = heap[o].currentLanguage
             /\ ~SetsLanguage(out')
     /\ \A o \in Objects' \ Objects :
          heap'[o].currentLanguage = primaryLanguage(heap'[o].businessInfo)]_vars

\* A second turn of a session has just begun with a prompt in the active
\* language, after a first turn whose reply held no directive: the active
\* language is still the primary one.
C10_Witness ==
  /\ ev.op = "ws-prompt-await"
  /\ ev.lang = "en"
  /\ out = <<>>
  /\ \E k \in 1..Len(wsConns) :
       LET session == heap[wsConns[k].session] IN
       /\ ev.conn = k
       /\ session.conversationHistory # <<>>
       /\ detectedLanguageFromClaude(StoredReply(session)) = NoLang
       /\ session.currentLanguage = "en-US"
       /\ session.currentLanguage = primaryLanguage(session.businessInfo)

\* The prompts whose completions are awaited, all on connection k, are the
\* first three of the conversation and carried the languages l1, l2, l3 in
\* this order; no turn has ended yet.
ThreePromptsInFlight(k, l1, l2, l3) ==
  /\ apiCalls = 3
  /\ \A t \in wsTurns : t.conn = k
  /\ {<<t.tid, t.detectedLang>> : t \in wsTurns} = {<<1, l1>>, <<2, l2>>, <<3, l3>>}

\* C11: a prompt whose detected language X differs from the active language
\* and from the pending candidate only makes X the candidate, with a streak of
\* one; a prompt whose detected language is the active language clears the
\* candidate and the streak. Neither changes the active language nor sends a
\* set-language message, so "X, then A, then X" never switches.
C11_SingleDetectionReverts ==
  [][\A k \in 1..Len(wsConns) :
       (ev'.op = "ws-prompt-await" /\ ev'.conn = k /\ ev'.lang # NoLang)
         => LET before == heap[wsConns[k].session]
                after == heap'[wsConns[k].session]
                full == fullLangCode(ev'.lang)
            IN /\ (full # before.currentLanguage /\ before.lastDetectedLanguage # full)
                    => /\ after.currentLanguage = before.currentLanguage
                       /\ after.lastDetectedLanguage = full
                       /\ after.languageDetectionCount = 1
                       /\ ~SetsLanguage(out')
               /\ full = before.currentLanguage
                    => /\ after.currentLanguage = before.currentLanguage
                       /\ after.lastDetectedLanguage = NoLang
                       /\ after.languageDetectionCount = 0
                       /\ ~SetsLanguage(out')]_vars

\* A Dutch conversation heard English, then Dutch, then English: it is still
\* Dutch, and English is a candidate heard once.
C11_Witness ==
  /\ ev.op = "ws-prompt-await"
  /\ out = <<>>
  /\ \E k \in 1..Len(wsConns) :
       LET session == heap[wsConns[k].session] IN
       /\ ThreePromptsInFlight(k, "en", "nl", "en")
       /\ session.currentLanguage = "nl-NL"
       /\ session.lastDetectedLanguage = "en-US"
       /\ session.languageDetectionCount = 1

\* C12: the first prompt that detects a language X other than the active one
\* does not switch; the next prompt, if it detects X again, makes X the active
\* language, sends exactly one set-language message for X and clears the
\* candidate and the streak; a prompt that detects the active language sends
\* nothing, so further prompts detecting X switch no more. A streak is never
\* longer than one, and is one exactly when there is a candidate.
C12_SecondDetectionSwitchesOnce ==
  [][/\ \A o \in Objects :
          /\ heap[o].languageDetectionCount \in {0, 1}
          /\ heap[o].languageDetectionCount = 1 <=> heap[o].lastDetectedLanguage # NoLang
     /\ \A k \in 1..Len(wsConns) :
          (ev'.op = "ws-prompt-await" /\ ev'.conn = k /\ ev'.lang # NoLang)
            => LET before == heap[wsConns[k].session]
                   after == heap'[wsConns[k].session]
                   full == fullLangCode(ev'.lang)
               IN /\ (full # before.currentLanguage /\ before.lastDetectedLanguage = full)
                       => /\ after.currentLanguage = full
                          /\ after.lastDetectedLanguage = NoLang
                          /\ after.languageDetectionCount = 0
                          /\ out' = Sent(wsConns[k], <<LanguageMessage(full)>>)
                  /\ (full # before.currentLanguage /\ before.lastDetectedLanguage # full)
                       => /\ after.currentLanguage = before.currentLanguage
                          /\ out' = <<>>
                  /\ full = before.currentLanguage
                       => /\ after.currentLanguage = full
                          /\ out' = <<>>]_vars

\* A Dutch conversation heard English three times running: it became English
\* on the second prompt and the third prompt sent nothing.
C12_Witness ==
  /\ ev.op = "ws-prompt-await"
  /\ out = <<>>
  /\ \E k \in 1..Len(wsConns) :
       LET session == heap[wsConns[k].session] IN
       /\ wsConns[k].state = "open"
       /\ ThreePromptsInFlight(k, "en", "en", "en")
       /\ primaryLanguage(session.businessInfo) = "nl-NL"
       /\ session.currentLanguage = "en-US"
       /\ session.lastDetectedLanguage = NoLang
       /\ session.languageDetectionCount = 0

\* The ops of the steps of a turn on the stream binding.
StreamTurnOps == {"ws-prompt", "ws-prompt-await", "ws-prompt-return", "ws-prompt-error"}

\* The utterances among the messages of a response.
Utterances_of(messages) == SelectSeq(messages, LAMBDA m : m.d = "text")

\* C13: a step of a turn that switches the active language of an open
\* connection sends an utterance before the set-language message (the transfer
\* announcement, in the old voice) and an utterance after it (the greeting, in
\* the new voice; the sanitized reply comes last); a step of a turn that
\* switches nothing sends no set-language message and at most the one
\* utterance that answers the turn.
C13_SwitchIsAHandOff ==
  [][\A k \in 1..Len(wsConns) :
       (ev'.op \in StreamTurnOps /\ ev'.conn = k /\ wsConns[k].state = "open")
         => IF heap'[wsConns[k].session].currentLanguage
                 # heap[wsConns[k].session].currentLanguage
            THEN \E i, j, l \in 1..Len(out') :
                   /\ i < j /\ j < l
                   /\ out'[i].d = "text"
                   /\ out'[j].d = "language"
                   /\ out'[l].d = "text"
            ELSE /\ ~SetsLanguage(out')
                 /\ Len(Utterances_of(out')) <= 1]_vars

C15_NoDetectionClearsStreak ==
  [][\A k \in 1..Len(wsConns) :
       /\ (ev'.op = "ws-prompt-await" /\ ev'.conn = k /\ ev'.lang = NoLang)
            => LET after == heap'[wsConns[k].session] IN
               /\ after.currentLanguage = heap[wsConns[k].session].currentLanguage
               /\ after.lastDetectedLanguage = NoLang
               /\ after.languageDetectionCount = 0
       /\ (ThreePromptsInFlight(k, "en", NoLang, "en")' /\ ev'.conn = k
           /\ primaryLanguage(heap'[wsConns[k].session].businessInfo) = "nl-NL")
            => heap'[wsConns[k].session].currentLanguage = "nl-NL"]_vars

\* Some message of a response sets a language that has no voice configuration.
SetsUnconfiguredLanguage(messages) ==
  \E i \in 1..Len(messages) :
    messages[i].d = "language" /\ messages[i].a[1] \notin LANGUAGE_CONFIG

\* C16: the active language of every session, and the language of every
\* set-language message sent, is a key of LANGUAGE_CONFIG.
C16_ActiveLanguageIsConfigured ==
  /\ \A o \in Objects : heap[o].currentLanguage \in LANGUAGE_CONFIG
  /\ ~SetsUnconfiguredLanguage(out)

\* C17: when the reply of a completed turn holds no directive that parses to a
\* language code, the step leaves the active language unchanged, sends no
\* set-language message and, on an open connection, sends the reply as one
\* utterance in which no "detected_language" key is left.
C17_BadDirectiveIsTolerated ==
  [][\A k \in 1..Len(wsConns) :
       (ev'.op = "ws-prompt-return" /\ ev'.conn = k
        /\ detectedLanguageFromClaude(StoredReply(heap'[wsConns[k].session])) = NoLang)
         => /\ heap'[wsConns[k].session].currentLanguage =
                 heap[wsConns[k].session].currentLanguage
            /\ ~SetsLanguage(out')
            /\ wsConns[k].state = "open"
                 => /\ Len(out') = 1
                    /\ out'[1].d = "text"
                    /\ \A i \in 1..Len(out'[1].a) : out'[1].a[i] # "K"]_vars

\* C18: stripEmojisAndFormatting is idempotent: sanitizing a sanitized text
\* gives the same text.
C18_SanitizerIsIdempotent ==
  ev.op = "sanitized" => stripEmojisAndFormatting(out[1].a) = out[1].a

\* The history of `after` is that of `before` with the caller's words and
\* then the reply `raw`, as returned, appended.
TurnStored(before, after, prompt, raw) ==
  after.conversationHistory =
    Append(Append(before.conversationHistory, UserTurn(prompt)), AssistantTurn(raw))

C20_CloseRemovesSession ==
  [][/\ \A k \in 1..Len(wsConns) :
          (ev'.op = "ws-close" /\ ev'.conn = k)
            => /\ callSessions'[wsConns[k].callSid] = 0
               /\ wsConns'[k].state = "closed"
     /\ \A k \in 1..Len(wsConns) :
          (wsConns[k].state = "closed" /\ callSessions[wsConns[k].callSid] = 0
           /\ ev'.op # "incoming")
            => callSessions'[wsConns[k].callSid] = 0]_vars

\* A connection has just closed within the budget while a completion was
\* awaited on it.
C20_Witness ==
  /\ ev.op = "ws-close"
  /\ callSessions[ev.callSid] = 0
  /\ \E t \in wsTurns :
       /\ t.conn = ev.conn
       /\ wsConns[t.conn].state = "closed"
       /\ now - heap[wsConns[t.conn].session].startTime < TRIAL_LIMIT

\* C21: when the completion of a turn returns and the session object the turn
\* works on is no longer the one registered for its call id, the step writes
\* nothing (no history, no registry entry) and sends nothing.
C21_ReturnAfterRemovalWritesNothing ==
  [][/\ \A t \in httpTurns :
          (ev'.op = "process-return" /\ t \notin httpTurns'
           /\ callSessions[t.callSid] # t.session)
            => /\ heap' = heap
               /\ callSessions' = callSessions
               /\ out' = <<>>
     /\ \A t \in wsTurns :
          (ev'.op = "ws-prompt-return" /\ t \notin wsTurns'
           /\ callSessions[wsConns[t.conn].callSid] # wsConns[t.conn].session)
            => /\ heap' = heap
               /\ callSessions' = callSessions
               /\ out' = <<>>]_vars

\* C26: a turn event or a stream connection for a call id that is not in the
\* registry creates no session, requests no completion and is answered with
\* no spoken utterance.
C26_UnknownCallIsNotSpokenTo ==
  [][\A c \in CallSids :
       (ev'.op \in ProcessOps \cup {"ws-connection"} /\ ev'.callSid = c
        /\ callSessions[c] = 0)
         => /\ heap' = heap
            /\ callSessions' = callSessions
            /\ apiCalls' = apiCalls
            /\ \A i \in 1..Len(out') : out'[i].d \notin {"say", "text"}]_vars

\* C30: the number of completions requested grows only by one, in a step that
\* takes a caller utterance and starts the one turn that awaits it; a timeout
\* or a failure ends its turn and requests nothing.
C30_OneCompletionPerUtterance ==
  [][/\ apiCalls' \in {apiCalls, apiCalls + 1}
     /\ apiCalls' = apiCalls + 1
          => /\ ev'.op \in {"process-await", "ws-prompt-await"}
             /\ Cardinality(httpTurns' \cup wsTurns')
                  = Cardinality(httpTurns \cup wsTurns) + 1
     /\ ev'.op \in {"process-timeout", "process-error", "ws-prompt-error"}
          => /\ apiCalls' = apiCalls
             /\ httpTurns' \subseteq httpTurns
             /\ wsTurns' \subseteq wsTurns
             /\ Cardinality(httpTurns' \cup wsTurns')
                  = Cardinality(httpTurns \cup wsTurns) - 1]_vars

\* The only turn of the run has just timed out: one completion was requested
\* and none is awaited.
C30_Witness ==
  /\ ev.op = "process-timeout"
  /\ apiCalls = 1
  /\ httpTurns = {}
  /\ wsTurns = {}

\* The handles and the call of SpecSweep with their timers: the clock
\* advances and the ten-minute sweep runs again and again. Nothing makes the
\* transport send a further event for a call.
FairSweep == SpecSweep /\ WF_vars(SweepTick) /\ WF_vars(Sweep)

\* C22: every call session that is created is eventually removed from the
\* registry, also when no further event of its call arrives.
C22_EverySessionIsReclaimed ==
  \A c \in CallSids : (callSessions[c] # 0) ~> (callSessions[c] = 0)

\* C23: a sweep removes exactly the handles created more than one hour before
\* it and keeps the others in their order; it leaves the call sessions, the
\* registry, the trial ledger, the turns in flight and the clock as they
\* were, and a second sweep at once would remove nothing.
C23_SweepRemovesOldHandlesOnly ==
  [][ev'.op = "sweep"
       => /\ businessSessions'
               = SelectSeq(businessSessions,
                           LAMBDA data : now - data.createdAt <= ONE_HOUR)
          /\ \A i \in 1..Len(businessSessions') :
               ~(now' - businessSessions'[i].createdAt > ONE_HOUR)
          /\ UNCHANGED <<now, heap, callSessions, trialPhoneNumbers,
                         httpTurns, wsConns, wsTurns, apiCalls>>
          /\ out' = <<>>]_vars

\* A sweep has just removed the first handle and kept the second, created an
\* hour later, while a turn of a call admitted under the second handle awaits
\* its completion.
C23_Witness ==
  /\ ev.op = "sweep"
  /\ Len(businessSessions) = 1
  /\ businessSessions[1].sessionId = 2
  /\ now - businessSessions[1].createdAt <= ONE_HOUR
  /\ \E t \in httpTurns : callSessions[t.callSid] = t.session

\* The handles a call arriving now can be given: those created less than
\* thirty minutes ago.
Unexpired ==
  { i \in 1..Len(businessSessions) :
      now - businessSessions[i].createdAt < THIRTY_MINUTES }

\* The call-started event of the step is neither a repeated request for a
\* registered call nor refused by the trial ledger.
LooksUpHandle(c) ==
  /\ ev'.op = "incoming"
  /\ ev'.callSid = c
  /\ callSessions[c] = 0
  /\ ~(ENABLE_TRIAL_RESTRICTIONS /\ From(c) \in trialPhoneNumbers)

\* C24: no dialled number is ever mapped to a handle, so the persona of an
\* admitted call is that of a handle with the greatest creation time among
\* the unexpired handles, those created less than thirty minutes before the
\* call; when there is none the call is rejected and no session is created.
C24_PersonaOfLatestUnexpiredHandle ==
  [][\A c \in CallSids :
       LooksUpHandle(c)
         => /\ \A to \in TwilioNumbers : twilioNumberToSession(to) = NoSessionId
            /\ Unexpired = {}
                 => /\ heap' = heap
                    /\ callSessions' = callSessions
                    /\ \E k \in 1..Len(out') : out'[k] = Hangup
            /\ Unexpired # {}
                 => /\ heap' = Append(heap, heap'[Len(heap')])
                    /\ callSessions' = [callSessions EXCEPT ![c] = Len(heap')]
                    /\ \E i \in Unexpired :
                         /\ \A j \in Unexpired :
                              businessSessions[j].createdAt
                                <= businessSessions[i].createdAt
                         /\ heap'[Len(heap')].businessInfo
                              = businessSessions[i].businessInfo
                         /\ heap'[Len(heap')].sessionId
                              = businessSessions[i].sessionId]_vars

\* A call has just been admitted under the later of two unexpired handles
\* that carry different personas.
C24_Witness ==
  /\ ev.op = "incoming"
  /\ Len(businessSessions) = 2
  /\ Unexpired = {1, 2}
  /\ businessSessions[1].createdAt < businessSessions[2].createdAt
  /\ businessSessions[1].businessInfo # businessSessions[2].businessInfo
  /\ callSessions[ev.callSid] # 0
  /\ heap[callSessions[ev.callSid]].startTime = now
  /\ heap[callSessions[ev.callSid]].sessionId = businessSessions[2].sessionId
  /\ heap[callSessions[ev.callSid]].businessInfo = businessSessions[2].businessInfo

\* C25: a call-started event that finds no unexpired handle is answered with
\* one explanatory utterance followed by hangup; no session is created for
\* its call id, the caller is not entered in the trial ledger and no
\* completion is requested.
C25_NoPersonaIsExplainedAndEnded ==
  [][\A c \in CallSids :
       (LooksUpHandle(c) /\ Unexpired = {})
         => /\ out' \in { <<Say(SETUP_FIRST), Hangup>>,
                          <<Say(NO_BUSINESS_INFO), Hangup>> }
            /\ callSessions'[c] = 0
            /\ UNCHANGED <<heap, callSessions, trialPhoneNumbers, apiCalls,
                           httpTurns>>]_vars

\* A call has just been turned away while a handle is still stored that was
\* created thirty minutes ago or earlier.
C25_Witness ==
  /\ ev.op = "incoming"
  /\ out = <<Say(SETUP_FIRST), Hangup>>
  /\ callSessions[ev.callSid] = 0
  /\ Len(businessSessions) > 0
  /\ Unexpired = {}

\* C28: the persona stored in a session is the one of the handle the call
\* was admitted under, no later step changes it, and every turn's request to
\* the remote completion is built from it, whatever handles were created,
\* selected or swept in the meantime.
C28_PersonaIsTheOneOfCallStart ==
  [][/\ \A o \in Objects :
          /\ o \in 1..Len(heap')
          /\ heap'[o].businessInfo = heap[o].businessInfo
          /\ heap'[o].sessionId = heap[o].sessionId
     /\ \A o \in (1..Len(heap')) \ Objects :
          /\ ev'.op = "incoming"
          /\ HandleOf(heap'[o].sessionId) # 0
          /\ heap'[o].businessInfo
               = businessSessions[HandleOf(heap'[o].sessionId)].businessInfo
     /\ \A t \in httpTurns' \ httpTurns :
          t.systemPrompt = heap[t.session].businessInfo]_vars

\* A turn has just been started for a call admitted under the first handle
\* after a second handle with another persona was created, which is the one a
\* new call would now be given.
C28_Witness ==
  /\ ev.op = "process-await"
  /\ Len(businessSessions) = 2
  /\ businessSessions[1].businessInfo # businessSessions[2].businessInfo
  /\ getActiveSession = businessSessions[2].sessionId
  /\ \E t \in httpTurns :
       /\ t.apiStartTime = now
       /\ heap[t.session].sessionId = businessSessions[1].sessionId
       /\ t.systemPrompt = businessSessions[1].businessInfo

\* The stream messages that are no prompts.
OtherMessageOps == {"ws-malformed", "ws-unknown", "ws-interrupt"}

\* C27: a stream message that cannot be parsed, one of an unknown type and an
\* interrupt message change no session, no registry entry and no turn in
\* flight, send nothing, request no completion and leave the connection in
\* the state it was in, so that it takes the next prompt as before.
C27_OtherMessagesChangeNothing ==
  [][ev'.op \in OtherMessageOps
       => /\ out' = <<>>
          /\ UNCHANGED <<heap, callSessions, wsConns, wsTurns, apiCalls,
                         trialPhoneNumbers, businessSessions, now>>]_vars

\* A message that could not be parsed has just arrived on an open connection
\* in the middle of a conversation: one turn is stored and the connection is
\* still open for the next prompt.
C27_Witness ==
  /\ ev.op = "ws-malformed"
  /\ wsConns[ev.conn].state = "open"
  /\ callSessions[ev.callSid] = wsConns[ev.conn].session
  /\ Len(heap[wsConns[ev.conn].session].conversationHistory) = 2
  /\ apiCalls < MaxTurns

SpeaksThenWaitsOrEnds(script) ==
  /\ Len(script) >= 2
  /\ script[Len(script)] \in {Gather, Hangup}
  /\ \A i \in 1..(Len(script) - 1) : script[i].d = "say"

\* The steps that end the handling of a turn event of the request/response
\* binding.
TurnEndOps == {"process", "process-return", "process-error", "process-timeout"}

\* C31: on the request/response binding every turn event for a registered
\* session is answered, on every path, with a script that holds at least one
\* say followed by exactly one gather or hangup.
C31_EveryTurnGetsAScript ==
  [][\A c \in CallSids :
       (ev'.op \in TurnEndOps /\ ev'.callSid = c /\ callSessions[c] # 0)
         => SpeaksThenWaitsOrEnds(out')]_vars

\* C32: a prompt whose detected language differs from the active language
\* and from the pending candidate makes it the candidate with a streak of
\* one, leaves the active language as it was and sends no set-language
\* message; so detections of X, Y, X in a row do not switch.
C32_OtherCandidateRestartsStreak ==
  [][\A k \in 1..Len(wsConns) :
       LET o == wsConns[k].session
           full == fullLangCode(ev'.lang)
       IN (/\ ev'.op = "ws-prompt-await"
           /\ ev'.conn = k
           /\ ev'.lang # NoLang
           /\ full # heap[o].currentLanguage
           /\ full # heap[o].lastDetectedLanguage)
            => /\ heap'[o].lastDetectedLanguage = full
               /\ heap'[o].languageDetectionCount = 1
               /\ heap'[o].currentLanguage = heap[o].currentLanguage
               /\ ~SetsLanguage(out')]_vars

\* Three prompts of a Dutch conversation were heard as English, as an
\* unmapped code and as English again: the conversation is still Dutch and
\* English is pending with a streak of one.
C32_Witness ==
  /\ ev.op = "ws-prompt-await"
  /\ ev.lang = "en"
  /\ \E k \in 1..Len(wsConns) :
       LET session == heap[wsConns[k].session] IN
       /\ ThreePromptsInFlight(k, "en", "xx", "en")
       /\ session.currentLanguage = "nl-NL"
       /\ session.lastDetectedLanguage = "en-US"
       /\ session.languageDetectionCount = 1

\* C33: the request built for an utterance that arrives while an earlier
\* utterance of the same call still awaits its completion contains the
\* earlier utterance.
C33_RequestHoldsEarlierUtterance ==
  [][\A t2 \in wsTurns' \ wsTurns : \A t1 \in wsTurns :
       wsConns[t1.conn].session = wsConns[t2.conn].session
         => \E i \in 1..Len(t2.messages) :
              t2.messages[i] = UserTurn(t1.voicePrompt)]_vars

\* A history of caller and assistant entries in turn, starting with the
\* caller and ending with the assistant.
Alternates(history) ==
  /\ Len(history) % 2 = 0
  /\ \A i \in 1..Len(history) :
       history[i].role = IF i % 2 = 1 THEN "user" ELSE "assistant"

\* C34: every session's history has even length and alternates caller entry,
\* assistant entry, also while turns overlap; a step that ends a turn with a
\* reply appends one caller entry and one assistant entry to its session's
\* history, and every other step leaves every history as it was.
C34_HistoryAlternates ==
  [][/\ \A o \in 1..Len(heap') : Alternates(heap'[o].conversationHistory)
     /\ \A o \in Objects :
          \/ heap'[o].conversationHistory = heap[o].conversationHistory
          \/ /\ ev'.op \in {"process-return", "ws-prompt-return"}
             /\ \E raw \in Replies : TurnStored(heap[o], heap'[o], ev'.utterance, raw)
             /\ \A p \in Objects \ {o} :
                  heap'[p].conversationHistory = heap[p].conversationHistory
     /\ ev'.op \in {"process-return", "ws-prompt-return"}
          => \E o \in Objects :
               heap'[o].conversationHistory # heap[o].conversationHistory]_vars

\* One of two overlapping stream turns has just ended: the other was asked
\* for when the history was still empty and is still in flight, and the
\* history holds the pair of the turn that ended.
C34_Witness ==
  /\ ev.op = "ws-prompt-return"
  /\ \E k \in 1..Len(wsConns) :
       /\ ev.conn = k
       /\ Len(heap[wsConns[k].session].conversationHistory) = 2
       /\ \E t \in wsTurns : t.conn = k /\ Len(t.messages) = 1

\* C35: with enforcement enabled, a repeated call-started event for a call id
\* that is still registered, from a caller who is in the trial ledger, gets
\* the empty response and not the already-used rejection; session, registry
\* and ledger stay as they were.
C35_DuplicateCheckComesFirst ==
  [][\A c \in CallSids :
       (/\ ev'.op = "incoming"
        /\ ev'.callSid = c
        /\ callSessions[c] # 0
        /\ ENABLE_TRIAL_RESTRICTIONS
        /\ From(c) \in trialPhoneNumbers)
         => /\ out' # <<Say(TRIAL_USED), Hangup>>
            /\ out' = <<>>
            /\ UNCHANGED <<heap, callSessions, trialPhoneNumbers>>]_vars

\* The start event of a registered call has just been repeated, some time
\* after the call was admitted under enforcement, and was answered with the
\* empty response.
C35_Witness ==
  /\ ev.op = "incoming"
  /\ out = <<>>
  /\ ENABLE_TRIAL_RESTRICTIONS
  /\ callSessions[ev.callSid] # 0
  /\ From(ev.callSid) \in trialPhoneNumbers
  /\ heap[callSessions[ev.callSid]].startTime < now

\* C36: with enforcement enabled a caller identity is in the trial ledger
\* exactly when some call from it was admitted, that is, was given a
\* session; with enforcement disabled the ledger is empty.
C36_LedgerRecordsAdmissionsOnly ==
  /\ ENABLE_TRIAL_RESTRICTIONS
       => \A c \in CallSids :
            From(c) \in trialPhoneNumbers <=> AdmittedBefore(From(c))
  /\ ~ENABLE_TRIAL_RESTRICTIONS => trialPhoneNumbers = {}

\* The messages hold a set-language message for languageCode ahead of every
\* text message.
AnnouncesFirst(messages, languageCode) ==
  \E i \in 1..Len(messages) :
    /\ messages[i] = LanguageMessage(languageCode)
    /\ \A j \in 1..(i - 1) : messages[j].d # "text"

OnlyStaleHandles ==
  /\ Len(businessSessions) > 0
  /\ \A i \in 1..Len(businessSessions) :
       /\ now - businessSessions[i].createdAt >= THIRTY_MINUTES
       /\ now - businessSessions[i].createdAt <= ONE_HOUR

\* C38: the handle a call is admitted under is younger than thirty minutes,
\* while GET /api/phone-number accepts every handle that is still stored; a
\* call that arrives when every stored handle is between thirty minutes and
\* one hour old is rejected with the set-up-first utterance and gets no
\* session.
C38_StoredButNotSelected ==
  [][/\ \A c \in CallSids :
          LooksUpHandle(c)
            => /\ callSessions'[c] # 0
                    => \E i \in 1..Len(businessSessions) :
                         /\ businessSessions[i].sessionId
                              = heap'[callSessions'[c]].sessionId
                         /\ now - businessSessions[i].createdAt < THIRTY_MINUTES
               /\ OnlyStaleHandles
                    => /\ out' = <<Say(SETUP_FIRST), Hangup>>
                       /\ callSessions'[c] = 0
                       /\ heap' = heap
     /\ (/\ ev'.op = "phone-number"
         /\ \E i \in 1..Len(businessSessions) :
              businessSessions[i].sessionId = ev'.conn)
          => out'[1].a[1] # 400]_vars

\* A call has just been rejected while two handles are stored, both between
\* thirty minutes and one hour old.
C38_Witness ==
  /\ ev.op = "incoming"
  /\ out = <<Say(SETUP_FIRST), Hangup>>
  /\ callSessions[ev.callSid] = 0
  /\ Len(businessSessions) = 2
  /\ OnlyStaleHandles

\* C39: the step that ends a turn changes nothing of its session but the
\* active language and the history, so a directive leaves the pending
\* candidate and its streak as they were; and a candidate that is pending
\* with a streak of one and is not the active language becomes the active
\* language at its next detection, whether a directive came between or not.
C39_DirectiveKeepsCandidate ==
  [][\A k \in 1..Len(wsConns) :
       LET before == heap[wsConns[k].session]
           after == heap'[wsConns[k].session]
       IN /\ (ev'.op = "ws-prompt-return" /\ ev'.conn = k)
               => after = [before EXCEPT
                             !.currentLanguage = after.currentLanguage,
                             !.conversationHistory = after.conversationHistory]
          /\ (/\ ev'.op = "ws-prompt-await"
              /\ ev'.conn = k
              /\ ev'.lang # NoLang
              /\ before.languageDetectionCount = 1
              /\ before.lastDetectedLanguage = fullLangCode(ev'.lang)
              /\ before.currentLanguage # fullLangCode(ev'.lang))
               => after.currentLanguage = fullLangCode(ev'.lang)]_vars

\* A Dutch conversation in which the code xx was detected once was switched
\* to English by the directive of its first reply; the second prompt, heard
\* as xx again, has just made xx the active language.
C39_Witness ==
  /\ ev.op = "ws-prompt-await"
  /\ ev.lang = "xx"
  /\ apiCalls = 2
  /\ \E k \in 1..Len(wsConns) :
       LET session == heap[wsConns[k].session] IN
       /\ ev.conn = k
       /\ primaryLanguage(session.businessInfo) = "nl-NL"
       /\ session.currentLanguage = "xx"
       /\ Len(session.conversationHistory) = 2
       /\ detectedLanguageFromClaude(StoredReply(session)) = "en"

\* C40: in every state, which is a state between two handler steps, each
\* session's streak count is 0 or 1, and it is 0 exactly when no candidate
\* language is pending.
C40_HysteresisStateWellFormed ==
  \A o \in Objects :
    /\ heap[o].languageDetectionCount \in {0, 1}
    /\ heap[o].languageDetectionCount = 0 <=> heap[o].lastDetectedLanguage = NoLang

\* A Dutch conversation was switched to English by two detections and has
\* then heard an unmapped code once: that code is pending with a streak of
\* one.
C40_Witness ==
  \E k \in 1..Len(wsConns) :
    LET session == heap[wsConns[k].session] IN
    /\ ThreePromptsInFlight(k, "en", "en", "xx")
    /\ primaryLanguage(session.businessInfo) = "nl-NL"
    /\ session.currentLanguage = "en-US"
    /\ session.lastDetectedLanguage = "xx"
    /\ session.languageDetectionCount = 1

====
